---- MODULE Spec2Model ----
(***************************************************************************)
(* Model of backend/server.py: the FastAPI handlers over the document      *)
(* database (ai_avatars, training_documents, conversations, status_checks) *)
(* and the process-wide agent cache.                                       *)
(*                                                                         *)
(* Every handler is a coroutine on one event loop.  The code between two   *)
(* awaits runs without interruption, and every awaited database call or    *)
(* agent call is a point where another request may run.  Each action below *)
(* is one database call together with the code that follows it up to the   *)
(* next awaited call; a request's arrival is merged with its first         *)
(* database call.  The prompt text handed to the agent (personality,       *)
(* document excerpts, history) has no effect on any stored state, so the   *)
(* read of training_documents in chat_with_avatar is not a step of its own *)
(* and the agent's answer is a nondeterministic choice.                    *)
(***************************************************************************)
EXTENDS Integers, Sequences, FiniteSets, TLC

VARIABLES
    ai_avatars,          \* db.ai_avatars: id -> avatar record
    training_documents,  \* db.training_documents: id -> document record
    conversations,       \* db.conversations: id -> conversation record
    status_checks,       \* db.status_checks: id -> status record
    agent_cache,         \* app.state.agent_cache: label -> agent instance
    constructed,         \* history: label -> number of agents constructed
    nextId,              \* the next fresh identifier (uuid4)
    clock,               \* datetime.now(): advances with every arriving request
    pc,                  \* per request slot: where its handler stands
    req,                 \* per request slot: the request being handled
    loc,                 \* per request slot: the handler's local variables
    done,                \* the request answered last, its response, the number
                         \* of agent.execute calls its handler made and the
                         \* answer the agent gave it
    history,             \* per conversation: the chat turns and the
                         \* summarize requests answered with success
    deleted              \* history: the ids of the avatars deleted so far

vars == <<ai_avatars, training_documents, conversations, status_checks,
          agent_cache, constructed, nextId, clock, pc, req, loc, done, history,
          deleted>>

db == <<ai_avatars, training_documents, conversations, status_checks>>
agents == <<agent_cache, constructed>>

----------------------------------------------------------------------------
(* Bounds of the model *)

\* Requests that arrive during one run.
MaxRequests == 4

\* Requests in flight at the same time.
Slots == {"r1", "r2"}

----------------------------------------------------------------------------
(* Values *)

\* Python's None for an optional string or datetime.
None == "None"

\* An absent (None or empty) conversation_id; as a path or avatar id, a
\* string that was never issued as an identifier.
NoId == 0

\* No datetime (ended_at = None).
NoTime == -1

DefaultUser == "default_user"

Names == {"n1"}
Personalities == {"p1"}
Messages == {"m1", "m2"}

\* An Optional[bool] of a request body: null, true or false.
OptionalBool == {None, "true", "false"}

\* The bodies of PUT /avatars/{id}: every field is optional.
AIAvatarUpdate ==
    { [name |-> None, personality_description |-> None, is_active |-> None],
      [name |-> "n2", personality_description |-> None, is_active |-> None],
      [name |-> None, personality_description |-> None, is_active |-> "false"],
      [name |-> None, personality_description |-> None, is_active |-> "true"],
      [name |-> "n2", personality_description |-> "p2", is_active |-> "false"] }

\* The labels a caller can pass as agent_type.
AgentLabels == {"chat", "search", "other"}

\* The identifiers issued so far.
Issued == 1 .. (nextId - 1)

\* What a caller can name as an id: an issued identifier of any kind, or a
\* string that is no identifier.
Targets == Issued \cup {NoId}

\* What a caller names as the id of a record of a collection: a stored
\* record's id, or an id the collection does not hold.
Naming(coll) == DOMAIN coll \cup {NoId}

----------------------------------------------------------------------------
(* The agent collaborator (ai_agents.agents), seen through its contract:   *)
(* execute() answers {success, content, error}; a successful answer has a  *)
(* content, an unsuccessful one an error or None.  An exception escaping   *)
(* execute() leaves the stored state as an unsuccessful answer does and is *)
(* not a case of its own.                                                  *)

Contents == {"a1"}
Errors == {None, "e1"}

AgentResults ==
    [success : {TRUE}, content : Contents, error : {None}]
    \cup [success : {FALSE}, content : {""}, error : Errors]

\* No call of agent.execute was answered.
NoResult == [success |-> FALSE, content |-> "", error |-> "no call"]

----------------------------------------------------------------------------
(* Records.  Of the stored fields, those no handler reads back and no      *)
(* response depends on are left out: the documents' filename, content and  *)
(* uploaded_at, the conversations' visitor_id and started_at, the          *)
(* messages' timestamp, the status checks' client_name and timestamp.      *)

NoAvatar ==
    [id |-> NoId, user_id |-> None, name |-> None,
     personality_description |-> None, created_at |-> NoTime,
     updated_at |-> NoTime, is_active |-> FALSE]

\* A slip: the two caller-supplied fields stored in each other's place.
AIAvatar_Swapped(id, name, personality, now) ==
    [id |-> id, user_id |-> DefaultUser, name |-> personality,
     personality_description |-> name, created_at |-> now,
     updated_at |-> now, is_active |-> TRUE]

\* AIAvatar(user_id="default_user", **avatar_data): is_active defaults to True.
AIAvatar(id, name, personality, now) ==
    [id |-> id, user_id |-> DefaultUser, name |-> name,
     personality_description |-> personality, created_at |-> now,
     updated_at |-> now, is_active |-> TRUE]

\* TrainingDocument(avatar_id=avatar_id, **doc_data)
TrainingDocument(id, avatar_id) == [id |-> id, avatar_id |-> avatar_id]

\* Conversation(avatar_id=..., visitor_id=..., messages=[])
Conversation(id, avatar_id) ==
    [id |-> id, avatar_id |-> avatar_id, messages |-> << >>,
     ended_at |-> NoTime, summary |-> None]

StatusCheck(id) == [id |-> id]

\* A request: the handler it is routed to and its inputs.
Request(op, id, conversation_id, message, name, personality, is_active, agent_type) ==
    [op |-> op, id |-> id, conversation_id |-> conversation_id,
     message |-> message, name |-> name, personality_description |-> personality,
     is_active |-> is_active, agent_type |-> agent_type]

NoRequest == Request("none", NoId, NoId, None, None, None, None, None)

\* A handler's local variables: the conversation id in use, the conversation
\* it read, the number of agent.execute calls it made.
Locals(conversation_id, messages, calls) ==
    [conversation_id |-> conversation_id, messages |-> messages, calls |-> calls]

NoLocals == Locals(NoId, << >>, 0)

\* A response: the HTTP status, the body's success and error/detail, and the
\* fields of the body the handlers return.
Response(code, success, detail, id, content, avatar) ==
    [code |-> code, success |-> success, detail |-> detail, id |-> id,
     content |-> content, avatar |-> avatar]

NoResponse == Response(0, FALSE, None, NoId, "", NoAvatar)

HTTPException(code, detail) == Response(code, FALSE, detail, NoId, "", NoAvatar)

\* One visitor or avatar entry of Conversation.messages.
Message(role, content) == [role |-> role, content |-> content]

----------------------------------------------------------------------------
(* Collections *)

\* insert_one
InsertOne(coll, doc) ==
    [i \in DOMAIN coll \cup {doc.id} |-> IF i = doc.id THEN doc ELSE coll[i]]

\* delete_one that matches the record and leaves it stored
DeleteOne_Kept(coll, id) == coll

\* delete_one({"id": id})
DeleteOne(coll, id) == [i \in DOMAIN coll \ {id} |-> coll[i]]

\* find_one({"id": avatar_id, "user_id": "default_user"}) finds a record
AvatarFound(avatars, id) ==
    id \in DOMAIN avatars /\ avatars[id].user_id = DefaultUser

\* A slip: the is_active filter left out of the query.
ActiveAvatarFound_AnyAvatar(avatars, id) == id \in DOMAIN avatars

\* find_one({"id": avatar_id, "is_active": True}) finds a record
ActiveAvatarFound(avatars, id) ==
    id \in DOMAIN avatars /\ avatars[id].is_active = TRUE

\* A slip: the fields kept by truth value (`if v`), which drops is_active false.
SetAvatarFields_Truthy(avatar, request, now) ==
    [avatar EXCEPT
        !.name = IF request.name # None THEN request.name ELSE @,
        !.personality_description =
            IF request.personality_description # None
            THEN request.personality_description ELSE @,
        !.is_active = IF request.is_active = "true" THEN TRUE ELSE @,
        !.updated_at = now]

\* update_data: the fields of AIAvatarUpdate that are not None, and updated_at;
\* {"$set": update_data} applied to the stored avatar.
SetAvatarFields(avatar, request, now) ==
    [avatar EXCEPT
        !.name = IF request.name # None THEN request.name ELSE @,
        !.personality_description =
            IF request.personality_description # None
            THEN request.personality_description ELSE @,
        !.is_active = IF request.is_active # None THEN request.is_active = "true" ELSE @,
        !.updated_at = now]

\* A slip: the visitor's message appended without the avatar's reply.
AppendTurn_VisitorOnly(messages, message, content) ==
    messages \o << Message("visitor", message) >>

\* A slip: the avatar's reply appended before the visitor's message.
AppendTurn_ReplyFirst(messages, message, content) ==
    messages \o << Message("avatar", content), Message("visitor", message) >>

\* conversation.messages.append(visitor); conversation.messages.append(avatar)
AppendTurn(messages, message, content) ==
    messages \o << Message("visitor", message), Message("avatar", content) >>

\* {"$set": {"messages": conversation.messages}}
SetMessages(conversation, messages) == [conversation EXCEPT !.messages = messages]

\* A slip: the summarized conversation closed by emptying its messages.
SetSummary_Emptied(conversation, content, now) ==
    [conversation EXCEPT !.summary = content, !.ended_at = now, !.messages = << >>]

\* A slip: the new summary appended to the stored one.
SetSummary_Appended(conversation, content, now) ==
    [conversation EXCEPT
        !.summary = IF @ = None THEN content ELSE @ \o content,
        !.ended_at = now]

\* {"$set": {"summary": result.content, "ended_at": datetime.now(timezone.utc)}}
SetSummary(conversation, content, now) ==
    [conversation EXCEPT !.summary = content, !.ended_at = now]

\* update_one({"id": id}, {"$set": ...}): the first matching record, if any.
UpdateOne(coll, id, doc) ==
    IF id \in DOMAIN coll THEN [coll EXCEPT ![id] = doc] ELSE coll

\* A slip: the cache not consulted, an agent constructed on every call.
GetOrCreateAgent_Uncached(cache, made, agent_type) ==
    IF agent_type \in {"search", "chat"}
    THEN [ok |-> TRUE,
          cache |-> [l \in DOMAIN cache \cup {agent_type} |->
                        IF l = agent_type THEN made[agent_type] + 1 ELSE cache[l]],
          made |-> [made EXCEPT ![agent_type] = @ + 1],
          agent |-> made[agent_type] + 1]
    ELSE [ok |-> FALSE, cache |-> cache, made |-> made, agent |-> 0]

\* _get_or_create_agent: the cached agent of the label, or a new agent stored
\* under it; any label but "search" and "chat" raises HTTPException(400).
GetOrCreateAgent(cache, made, agent_type) ==
    IF agent_type \in DOMAIN cache
    THEN [ok |-> TRUE, cache |-> cache, made |-> made, agent |-> cache[agent_type]]
    ELSE IF agent_type \in {"search", "chat"}
    THEN [ok |-> TRUE,
          cache |-> [l \in DOMAIN cache \cup {agent_type} |->
                        IF l = agent_type THEN made[agent_type] + 1 ELSE cache[l]],
          made |-> [made EXCEPT ![agent_type] = @ + 1],
          agent |-> made[agent_type] + 1]
    ELSE [ok |-> FALSE, cache |-> cache, made |-> made, agent |-> 0]

UnknownAgent == "Unknown agent type"

\* ChatResponse(success=response.success, response=response.content, ...,
\* error=response.error)
ChatResponse(result) ==
    Response(200, result.success, result.error, NoId, result.content, NoAvatar)

\* A slip: the unsuccessful search raised as the avatar chat raises it.
SearchResponse_Raised(result) ==
    IF result.success
    THEN Response(200, TRUE, None, NoId, result.content, NoAvatar)
    ELSE HTTPException(500, result.error)

\* SearchResponse(success=True, summary=result.content, ...) on success,
\* SearchResponse(success=False, summary="", error=result.error) otherwise
SearchResponse(result) ==
    IF result.success
    THEN Response(200, TRUE, None, NoId, result.content, NoAvatar)
    ELSE Response(200, FALSE, result.error, NoId, "", NoAvatar)

\* HTTPException(status_code=500, detail=result.error or "Failed to ...")
AgentFailure(result, fallback) ==
    HTTPException(500, IF result.error # None THEN result.error ELSE fallback)

\* A change of behaviour: the two messages pushed onto the stored list.
TurnWritten_Pushed(conversation, read, message, content) ==
    SetMessages(conversation, AppendTurn(conversation.messages, message, content))

\* The conversation after a chat turn: the two messages appended to the list
\* the handler read, and that list written over the stored one.
TurnWritten(conversation, read, message, content) ==
    SetMessages(conversation, AppendTurn(read, message, content))

\* GET /avatars/{avatar_id}: the stored avatar, or 404
GetAvatar(avatars, id) ==
    IF AvatarFound(avatars, id)
    THEN Response(200, TRUE, None, id, "", avatars[id])
    ELSE HTTPException(404, "Avatar not found")

\* GET /avatars/{avatar_id}/documents: the documents stored with the
\* avatar_id; the avatar itself is not looked up.
GetTrainingDocuments(documents, avatar_id) ==
    {documents[d] : d \in {e \in DOMAIN documents : documents[e].avatar_id = avatar_id}}

\* GET /avatars/{avatar_id}/conversations: the conversations stored with the
\* avatar_id; the avatar itself is not looked up.
GetAvatarConversations(convs, avatar_id) ==
    {convs[c] : c \in {e \in DOMAIN convs : convs[e].avatar_id = avatar_id}}

\* One more chat turn, or one more summary, answered on a conversation.
Counted(h, id, field) ==
    IF field = "turns" THEN [h EXCEPT ![id].turns = @ + 1]
    ELSE [h EXCEPT ![id].summaries = @ + 1]

----------------------------------------------------------------------------
Init ==
    /\ ai_avatars = << >>
    /\ training_documents = << >>
    /\ conversations = << >>
    /\ status_checks = << >>
    /\ agent_cache = << >>
    /\ constructed = [l \in AgentLabels |-> 0]
    /\ nextId = 1
    /\ clock = 0
    /\ pc = [r \in Slots |-> "idle"]
    /\ req = [r \in Slots |-> NoRequest]
    /\ loc = [r \in Slots |-> NoLocals]
    /\ done = [req |-> NoRequest, resp |-> NoResponse, calls |-> 0, result |-> NoResult]
    /\ history = << >>
    /\ deleted = {}

\* The slots before r: an arriving request takes the first free slot.
Before(r) == IF r = "r2" THEN {"r1"} ELSE {}

\* A request arrives in slot r.
Arrives(r) ==
    /\ pc[r] = "idle"
    /\ \A q \in Before(r) : pc[q] # "idle"
    /\ clock < MaxRequests
    /\ clock' = clock + 1

\* The handler in slot r resumes from the await it suspended at.
Resumes(r, at) ==
    /\ pc[r] = at
    /\ clock' = clock

\* The handler of slot r returns or raises: the response is sent.
Answers(r, request, response, result) ==
    /\ pc' = [pc EXCEPT ![r] = "idle"]
    /\ req' = [req EXCEPT ![r] = NoRequest]
    /\ loc' = [loc EXCEPT ![r] = NoLocals]
    /\ done' = [req |-> request, resp |-> response, calls |-> loc[r].calls,
                result |-> result]

\* The handler of slot r returns or raises without an answer of the agent.
Returns(r, request, response) == Answers(r, request, response, NoResult)

\* The handler of slot r suspends at an await, to resume at `at`.
Awaits(r, request, locals, at) ==
    /\ pc' = [pc EXCEPT ![r] = at]
    /\ req' = [req EXCEPT ![r] = request]
    /\ loc' = [loc EXCEPT ![r] = locals]
    /\ done' = done

----------------------------------------------------------------------------
(* POST /status *)
create_status_check(r) ==
    /\ Arrives(r)
    /\ status_checks' = InsertOne(status_checks, StatusCheck(nextId))
    /\ nextId' = nextId + 1
    /\ Returns(r, Request("create_status_check", NoId, NoId, None, None, None, None, None),
               Response(200, TRUE, None, nextId, "", NoAvatar))
    /\ UNCHANGED <<ai_avatars, training_documents, conversations, agents, history, deleted>>

(* POST /avatars *)
create_avatar(r) ==
    \E name \in Names, personality \in Personalities :
        /\ Arrives(r)
        /\ ai_avatars' = InsertOne(ai_avatars, AIAvatar(nextId, name, personality, clock'))
        /\ nextId' = nextId + 1
        /\ Returns(r, Request("create_avatar", NoId, NoId, None, name, personality, None, None),
                   Response(200, TRUE, None, nextId, "",
                            AIAvatar(nextId, name, personality, clock')))
        /\ UNCHANGED <<training_documents, conversations, status_checks, agents, history, deleted>>

(* GET /avatars/{avatar_id} *)
get_avatar(r) ==
    \E id \in Targets :
        /\ Arrives(r)
        /\ Returns(r, Request("get_avatar", id, NoId, None, None, None, None, None),
                   GetAvatar(ai_avatars, id))
        /\ UNCHANGED <<db, agents, nextId, history, deleted>>

(* DELETE /avatars/{avatar_id} *)
delete_avatar(r) ==
    \E id \in Naming(ai_avatars) \cup deleted :
        /\ Arrives(r)
        /\ IF AvatarFound(ai_avatars, id)
           THEN /\ ai_avatars' = DeleteOne(ai_avatars, id)
                /\ deleted' = deleted \cup {id}
                /\ Returns(r, Request("delete_avatar", id, NoId, None, None, None, None, None),
                           Response(200, TRUE, "Avatar deleted", id, "", NoAvatar))
           ELSE /\ ai_avatars' = ai_avatars
                /\ deleted' = deleted
                /\ Returns(r, Request("delete_avatar", id, NoId, None, None, None, None, None),
                           HTTPException(404, "Avatar not found"))
        /\ UNCHANGED <<training_documents, conversations, status_checks, agents, nextId, history>>

(* PUT /avatars/{avatar_id}: update_one, then find_one for the response *)
update_avatar(r) ==
    \E id \in Naming(ai_avatars) \cup deleted, update \in AIAvatarUpdate :
        LET request == Request("update_avatar", id, NoId, None, update.name,
                               update.personality_description, update.is_active, None)
        IN  /\ Arrives(r)
            /\ IF AvatarFound(ai_avatars, id)
               THEN /\ ai_avatars' = UpdateOne(ai_avatars, id,
                                        SetAvatarFields(ai_avatars[id], request, clock'))
                    /\ Awaits(r, request, NoLocals, "update_find")
               ELSE /\ ai_avatars' = ai_avatars
                    /\ Returns(r, request, HTTPException(404, "Avatar not found"))
            /\ UNCHANGED <<training_documents, conversations, status_checks, agents, nextId, history, deleted>>

update_avatar_find(r) ==
    /\ Resumes(r, "update_find")
    /\ Returns(r, req[r],
               IF req[r].id \in DOMAIN ai_avatars
               THEN Response(200, TRUE, None, req[r].id, "", ai_avatars[req[r].id])
               ELSE HTTPException(500, "Internal Server Error"))
    /\ UNCHANGED <<db, agents, nextId, history, deleted>>

(* POST /avatars/{avatar_id}/documents: find_one, then insert_one *)
upload_training_document(r) ==
    \E id \in Naming(ai_avatars) :
        LET request == Request("upload_training_document", id, NoId, None, None, None,
                               None, None)
        IN  /\ Arrives(r)
            /\ IF AvatarFound(ai_avatars, id)
               THEN Awaits(r, request, NoLocals, "upload_insert")
               ELSE Returns(r, request, HTTPException(404, "Avatar not found"))
            /\ UNCHANGED <<db, agents, nextId, history, deleted>>

upload_training_document_insert(r) ==
    /\ Resumes(r, "upload_insert")
    /\ training_documents' =
           InsertOne(training_documents, TrainingDocument(nextId, req[r].id))
    /\ nextId' = nextId + 1
    /\ Returns(r, req[r], Response(200, TRUE, None, nextId, "", NoAvatar))
    /\ UNCHANGED <<ai_avatars, conversations, status_checks, agents, history, deleted>>

(* DELETE /documents/{document_id} *)
delete_training_document(r) ==
    \E id \in Naming(training_documents) :
        LET request == Request("delete_training_document", id, NoId, None, None, None,
                               None, None)
        IN  /\ Arrives(r)
            /\ IF id \in DOMAIN training_documents
               THEN /\ training_documents' = DeleteOne(training_documents, id)
                    /\ Returns(r, request,
                               Response(200, TRUE, "Document deleted", id, "", NoAvatar))
               ELSE /\ training_documents' = training_documents
                    /\ Returns(r, request,
                               HTTPException(404, "Document not found"))
            /\ UNCHANGED <<ai_avatars, conversations, status_checks, agents, nextId, history, deleted>>

(* POST /chat/avatar: find_one avatar (and the documents for the prompt) *)
chat_with_avatar(r) ==
    \E id \in Naming(ai_avatars), message \in Messages :
      \E conversation_id \in Naming(conversations) \cup {id} :
        LET request == Request("chat_with_avatar", id, conversation_id, message, None,
                               None, None, None)
        IN  /\ Arrives(r)
            /\ IF ActiveAvatarFound(ai_avatars, id)
               THEN Awaits(r, request, NoLocals, "chat_conversation")
               ELSE Returns(r, request,
                            HTTPException(404, "Avatar not found or inactive"))
            /\ UNCHANGED <<db, agents, nextId, history, deleted>>

(* insert_one or find_one of the conversation, then the prompt, the agent  *)
(* from the cache and the call of agent.execute                            *)
chat_with_avatar_conversation(r) ==
    /\ Resumes(r, "chat_conversation")
    /\ IF req[r].conversation_id = NoId
       THEN LET agent == GetOrCreateAgent(agent_cache, constructed, "chat")
            IN  /\ conversations' =
                       InsertOne(conversations, Conversation(nextId, req[r].id))
                /\ history' = InsertOne(history, [id |-> nextId, turns |-> 0, summaries |-> 0])
                /\ nextId' = nextId + 1
                /\ agent_cache' = agent.cache
                /\ constructed' = agent.made
                /\ Awaits(r, req[r], Locals(nextId, << >>, 1), "chat_reply")
       ELSE IF req[r].conversation_id \in DOMAIN conversations
       THEN LET agent == GetOrCreateAgent(agent_cache, constructed, "chat")
            IN  /\ agent_cache' = agent.cache
                /\ constructed' = agent.made
                /\ Awaits(r, req[r],
                          Locals(req[r].conversation_id,
                                 conversations[req[r].conversation_id].messages, 1),
                          "chat_reply")
                /\ UNCHANGED <<conversations, nextId, history>>
       ELSE /\ Returns(r, req[r], HTTPException(404, "Conversation not found"))
            /\ UNCHANGED <<conversations, nextId, agents, history>>
    /\ UNCHANGED <<ai_avatars, training_documents, status_checks, deleted>>

(* agent.execute answers; on success the two messages are appended to the  *)
(* conversation read earlier and the whole list is written back            *)
chat_with_avatar_reply(r) ==
    \E result \in AgentResults :
        /\ Resumes(r, "chat_reply")
        /\ IF ~result.success
           THEN /\ Answers(r, req[r], AgentFailure(result, "Failed to generate response"),
                           result)
                /\ UNCHANGED <<conversations, history>>
           ELSE /\ conversations' =
                       UpdateOne(conversations, loc[r].conversation_id,
                           TurnWritten(conversations[loc[r].conversation_id],
                                       loc[r].messages, req[r].message, result.content))
                /\ history' = Counted(history, loc[r].conversation_id, "turns")
                /\ Answers(r, req[r],
                           Response(200, TRUE, None, loc[r].conversation_id,
                                    result.content, NoAvatar),
                           result)
        /\ UNCHANGED <<ai_avatars, training_documents, status_checks, agents, nextId, deleted>>

(* POST /conversations/{conversation_id}/summarize: find_one, the agent    *)
(* from the cache and the call of agent.execute                            *)
summarize_conversation(r) ==
    \E id \in Naming(conversations) \cup DOMAIN ai_avatars :
        LET request == Request("summarize_conversation", NoId, id, None, None, None,
                               None, None)
            agent == GetOrCreateAgent(agent_cache, constructed, "chat")
        IN  /\ Arrives(r)
            /\ IF id \in DOMAIN conversations
               THEN /\ agent_cache' = agent.cache
                    /\ constructed' = agent.made
                    /\ Awaits(r, request, Locals(id, conversations[id].messages, 1),
                              "summarize_reply")
               ELSE /\ Returns(r, request,
                               HTTPException(404, "Conversation not found"))
                    /\ UNCHANGED agents
            /\ UNCHANGED <<db, nextId, history, deleted>>

(* agent.execute answers; on success summary and ended_at are written *)
summarize_conversation_reply(r) ==
    \E result \in AgentResults :
        /\ Resumes(r, "summarize_reply")
        /\ IF result.success
           THEN /\ conversations' =
                       UpdateOne(conversations, loc[r].conversation_id,
                           SetSummary(conversations[loc[r].conversation_id],
                                      result.content, clock))
                /\ history' = Counted(history, loc[r].conversation_id, "summaries")
                /\ Answers(r, req[r],
                           Response(200, TRUE, None, loc[r].conversation_id,
                                    result.content, NoAvatar),
                           result)
           ELSE /\ Answers(r, req[r], AgentFailure(result, "Failed to generate summary"),
                           result)
                /\ UNCHANGED <<conversations, history>>
        /\ UNCHANGED <<ai_avatars, training_documents, status_checks, agents, nextId, deleted>>

(* POST /chat: the agent of the requested type and the call of execute *)
chat_with_agent(r) ==
    \E agent_type \in AgentLabels :
        LET request == Request("chat_with_agent", NoId, NoId, "m1", None, None, None,
                               agent_type)
            agent == GetOrCreateAgent(agent_cache, constructed, agent_type)
        IN  /\ Arrives(r)
            /\ agent_cache' = agent.cache
            /\ constructed' = agent.made
            /\ IF agent.ok
               THEN Awaits(r, request, Locals(NoId, << >>, 1), "chat_reply_agent")
               ELSE Returns(r, request, HTTPException(400, UnknownAgent))
            /\ UNCHANGED <<db, nextId, history, deleted>>

(* agent.execute answers: the agent's success and error go into the body *)
chat_with_agent_reply(r) ==
    \E result \in AgentResults :
        /\ Resumes(r, "chat_reply_agent")
        /\ Answers(r, req[r], ChatResponse(result), result)
        /\ UNCHANGED <<db, agents, nextId, history, deleted>>

(* POST /search: the search agent and the call of execute *)
search_and_summarize(r) ==
    LET request == Request("search_and_summarize", NoId, NoId, "m1", None, None, None,
                           "search")
        agent == GetOrCreateAgent(agent_cache, constructed, "search")
    IN  /\ Arrives(r)
        /\ agent_cache' = agent.cache
        /\ constructed' = agent.made
        /\ Awaits(r, request, Locals(NoId, << >>, 1), "search_reply")
        /\ UNCHANGED <<db, nextId, history, deleted>>

(* agent.execute answers: a summary on success, the error otherwise *)
search_and_summarize_reply(r) ==
    \E result \in AgentResults :
        /\ Resumes(r, "search_reply")
        /\ Answers(r, req[r], SearchResponse(result), result)
        /\ UNCHANGED <<db, agents, nextId, history, deleted>>

(* GET /agents/capabilities: both agents from the cache *)
get_agent_capabilities(r) ==
    LET search_agent == GetOrCreateAgent(agent_cache, constructed, "search")
        chat_agent == GetOrCreateAgent(search_agent.cache, search_agent.made, "chat")
    IN  /\ Arrives(r)
        /\ agent_cache' = chat_agent.cache
        /\ constructed' = chat_agent.made
        /\ Returns(r, Request("get_agent_capabilities", NoId, NoId, None, None, None,
                              None, None), Response(200, TRUE, None, NoId, "", NoAvatar))
        /\ UNCHANGED <<db, nextId, history, deleted>>

----------------------------------------------------------------------------
Next ==
    \E r \in Slots :
        \/ create_status_check(r)
        \/ create_avatar(r)
        \/ get_avatar(r)
        \/ update_avatar(r)
        \/ update_avatar_find(r)
        \/ delete_avatar(r)
        \/ upload_training_document(r)
        \/ upload_training_document_insert(r)
        \/ delete_training_document(r)
        \/ chat_with_avatar(r)
        \/ chat_with_avatar_conversation(r)
        \/ chat_with_avatar_reply(r)
        \/ summarize_conversation(r)
        \/ summarize_conversation_reply(r)
        \/ chat_with_agent(r)
        \/ chat_with_agent_reply(r)
        \/ search_and_summarize(r)
        \/ search_and_summarize_reply(r)
        \/ get_agent_capabilities(r)

Spec == Init /\ [][Next]_vars

----------------------------------------------------------------------------
(* Reading a step *)

\* A request arrives in this step.
Arrival == clock' = clock + 1

\* The request that arrives in this step: it is in flight after the step, or
\* it was answered within the step.
Arrived ==
    LET taken == {r \in Slots : pc[r] = "idle" /\ pc'[r] # "idle"}
    IN  IF taken # {} THEN req'[CHOOSE r \in taken : TRUE] ELSE done'.req

\* The chat turn of slot r is answered with success in this step.
TurnAnswered(r) ==
    pc[r] = "chat_reply" /\ pc'[r] = "idle" /\ done'.resp.code = 200

\* The summarize request of slot r is answered with success in this step.
SummaryAnswered(r) ==
    pc[r] = "summarize_reply" /\ pc'[r] = "idle" /\ done'.resp.code = 200

\* The visitor's message and the avatar's reply, as a chat turn stores them.
Turn(message, content) ==
    << [role |-> "visitor", content |-> message],
       [role |-> "avatar", content |-> content] >>

IsPrefix(s, t) == Len(s) <= Len(t) /\ SubSeq(t, 1, Len(s)) = s

----------------------------------------------------------------------------
(* C1: a chat turn without conversation_id creates exactly one conversation, *)
(* which after the answer holds exactly [visitor message, avatar reply]; a   *)
(* turn carrying a conversation_id is answered with that id, creates no      *)
(* conversation and, following the earlier turn, appends its two messages    *)
(* to the stored list (two messages become four).                            *)
C1_ChatTurns ==
    [][\A r \in Slots :
        /\ (pc[r] = "chat_conversation" /\ pc'[r] = "chat_reply") =>
              IF req[r].conversation_id = NoId
              THEN \E c \in DOMAIN conversations' \ DOMAIN conversations :
                      /\ DOMAIN conversations' = DOMAIN conversations \cup {c}
                      /\ conversations'[c].messages = << >>
                      /\ loc'[r].conversation_id = c
              ELSE /\ conversations' = conversations
                   /\ loc'[r].conversation_id = req[r].conversation_id
        /\ TurnAnswered(r) =>
              LET c == loc[r].conversation_id
                  turn == Turn(req[r].message, done'.resp.content)
              IN  /\ done'.resp.id = c
                  /\ done'.resp.success
                  /\ DOMAIN conversations' = DOMAIN conversations
                  /\ \A d \in DOMAIN conversations \ {c} :
                        conversations'[d] = conversations[d]
                  /\ req[r].conversation_id = NoId =>
                        conversations'[c].messages = turn
                  /\ (req[r].conversation_id # NoId
                        /\ conversations[c].messages = loc[r].messages) =>
                        /\ c = req[r].conversation_id
                        /\ conversations'[c].messages = conversations[c].messages \o turn
                        /\ Len(conversations'[c].messages)
                              = Len(conversations[c].messages) + 2
       ]_vars

\* C1, reached: a follow-up turn was answered on the conversation the first
\* turn created, which is the only conversation and holds four messages.
C1_Witness ==
    /\ done.req.op = "chat_with_avatar"
    /\ done.req.conversation_id # NoId
    /\ done.resp.code = 200
    /\ done.resp.id = done.req.conversation_id
    /\ DOMAIN conversations = {done.resp.id}
    /\ Len(conversations[done.resp.id].messages) = 4
    /\ history[done.resp.id].turns = 2

(* C2: a chat turn naming an avatar that is not stored, or is stored with   *)
(* is_active false, is answered 404 at once: no conversation is created or   *)
(* changed and the agent is neither fetched nor executed, with or without a  *)
(* conversation_id.                                                          *)
C2_ChatWithoutAvatar ==
    [][(/\ Arrival
        /\ Arrived.op = "chat_with_avatar"
        /\ \/ Arrived.id \notin DOMAIN ai_avatars
           \/ ~ai_avatars[Arrived.id].is_active)
       => /\ done'.req = Arrived
          /\ done'.resp.code = 404
          /\ done'.calls = 0
          /\ pc' = pc
          /\ conversations' = conversations
          /\ agent_cache' = agent_cache
          /\ constructed' = constructed
       ]_vars

\* C2, reached: a chat turn naming a stored but inactive avatar and a stored
\* conversation was answered 404.
C2_Witness ==
    /\ done.req.op = "chat_with_avatar"
    /\ done.resp.code = 404
    /\ done.req.id \in DOMAIN ai_avatars
    /\ ~ai_avatars[done.req.id].is_active
    /\ done.req.conversation_id \in DOMAIN conversations
    /\ done.calls = 0

C4_AgentFailure ==
    /\ done.calls <= 1
    /\ \A r \in Slots : loc[r].calls <= 1
    /\ (done.calls = 1 /\ ~done.result.success) =>
          IF done.req.op \in {"chat_with_agent", "search_and_summarize"}
          THEN /\ done.resp.code = 200
               /\ ~done.resp.success
               /\ done.resp.detail = done.result.error
          ELSE /\ done.req.op \in {"chat_with_avatar", "summarize_conversation"}
               /\ done.resp.code = 500
               /\ ~done.resp.success

\* C4, reached: a search whose agent answered without success was answered
\* 200 with the agent's error.
C4_Witness ==
    /\ done.req.op = "search_and_summarize"
    /\ done.calls = 1
    /\ ~done.result.success
    /\ done.result.error = "e1"
    /\ done.resp.code = 200
    /\ done.resp.detail = "e1"

(* C5: after POST /avatars, GET /avatars/{id} with the returned id returns  *)
(* the supplied name and personality_description, is_active true and the     *)
(* default user; the id was issued to no record before, and no two stored    *)
(* records of any kind share an id.                                          *)
C5_CreateThenGet ==
    [][/\ (Arrival /\ Arrived.op = "create_avatar") =>
            LET id == done'.resp.id
                got == GetAvatar(ai_avatars', id)
            IN  /\ done'.req = Arrived
                /\ done'.resp.code = 200
                /\ got.code = 200
                /\ got.avatar.id = id
                /\ got.avatar.name = Arrived.name
                /\ got.avatar.personality_description = Arrived.personality_description
                /\ got.avatar.is_active = TRUE
                /\ got.avatar.user_id = "default_user"
                /\ got.avatar = done'.resp.avatar
                /\ id \notin Issued
                /\ id \notin DOMAIN ai_avatars \cup DOMAIN training_documents
                             \cup DOMAIN conversations \cup DOMAIN status_checks
       /\ DOMAIN ai_avatars' \cap DOMAIN training_documents' = {}
       /\ DOMAIN ai_avatars' \cap DOMAIN conversations' = {}
       /\ DOMAIN ai_avatars' \cap DOMAIN status_checks' = {}
       /\ DOMAIN training_documents' \cap DOMAIN conversations' = {}
       /\ DOMAIN training_documents' \cap DOMAIN status_checks' = {}
       /\ DOMAIN conversations' \cap DOMAIN status_checks' = {}
       ]_vars

\* C5, reached: an avatar created after other identifiers had been issued
\* was fetched by its id.
C5_Witness ==
    /\ done.req.op = "get_avatar"
    /\ done.resp.code = 200
    /\ done.resp.avatar.id = done.req.id
    /\ done.resp.avatar.id > 1
    /\ done.resp.avatar.name \in Names
    /\ done.resp.avatar.is_active

(* C6: an upload naming no stored avatar is answered 404 and stores no      *)
(* document; every document is stored at a moment when its avatar is         *)
(* stored, also when uploads interleave with deletions of avatars.           *)
C6_DocumentOfStoredAvatar ==
    [][/\ (/\ Arrival
           /\ Arrived.op = "upload_training_document"
           /\ Arrived.id \notin DOMAIN ai_avatars)
          => /\ done'.req = Arrived
             /\ done'.resp.code = 404
             /\ training_documents' = training_documents
       /\ \A d \in DOMAIN training_documents' \ DOMAIN training_documents :
             training_documents'[d].avatar_id \in DOMAIN ai_avatars
       ]_vars

(* C7: PUT /avatars/{id} on a stored avatar sets exactly the fields supplied *)
(* with a non-null value among name, personality_description and is_active   *)
(* (false included), stamps updated_at and leaves id, user_id, created_at,   *)
(* every other avatar and every other collection as they were; on an id      *)
(* naming no avatar it is answered 404 and changes nothing.                  *)
C7_PartialUpdate ==
    [][/\ (Arrival /\ Arrived.op = "update_avatar") =>
            IF Arrived.id \in DOMAIN ai_avatars
            THEN LET old == ai_avatars[Arrived.id]
                     new == ai_avatars'[Arrived.id]
                 IN  /\ DOMAIN ai_avatars' = DOMAIN ai_avatars
                     /\ new.name =
                           IF Arrived.name = None THEN old.name ELSE Arrived.name
                     /\ new.personality_description =
                           IF Arrived.personality_description = None
                           THEN old.personality_description
                           ELSE Arrived.personality_description
                     /\ new.is_active =
                           CASE Arrived.is_active = "true" -> TRUE
                             [] Arrived.is_active = "false" -> FALSE
                             [] OTHER -> old.is_active
                     /\ new.updated_at = clock'
                     /\ new.id = old.id
                     /\ new.user_id = old.user_id
                     /\ new.created_at = old.created_at
                     /\ \A a \in DOMAIN ai_avatars \ {Arrived.id} :
                           ai_avatars'[a] = ai_avatars[a]
                     /\ UNCHANGED <<training_documents, conversations, status_checks>>
            ELSE /\ done'.req = Arrived
                 /\ done'.resp.code = 404
                 /\ UNCHANGED db
       /\ \A r \in Slots : pc[r] = "update_find" /\ pc'[r] = "idle" => UNCHANGED db
       ]_vars

\* C7, reached: an avatar that an earlier update renamed and deactivated was
\* reactivated by an update supplying is_active alone.
C7_Witness ==
    /\ done.req.op = "update_avatar"
    /\ done.req.is_active = "true"
    /\ done.req.name = None
    /\ done.resp.code = 200
    /\ done.resp.avatar.is_active
    /\ done.resp.avatar.name = "n2"
    /\ done.resp.avatar.personality_description = "p2"
    /\ done.resp.avatar.updated_at > done.resp.avatar.created_at

(* C8: a chat turn answered with success after another turn wrote the       *)
(* conversation since this turn read it stores the list it read plus its     *)
(* own two messages: the messages written in between are not kept, and the   *)
(* conversation holds fewer than two messages per turn answered with         *)
(* success.                                                                  *)
C8_LastWriteWins ==
    [][\A r \in Slots :
        (TurnAnswered(r)
            /\ conversations[loc[r].conversation_id].messages # loc[r].messages) =>
              LET c == loc[r].conversation_id
              IN  /\ conversations'[c].messages
                        = loc[r].messages \o Turn(req[r].message, done'.resp.content)
                  /\ Len(conversations'[c].messages) < 2 * history'[c].turns
       ]_vars

\* C8, reached: three chat turns on one conversation were answered with
\* success, the last answered one carried the conversation's id and left the
\* conversation holding its own two messages only.  It read the empty list
\* while the creating turn was in flight, and another turn carrying the id
\* read and wrote the conversation before it wrote: that turn's messages and
\* the creating turn's are lost.
C8_Witness ==
    /\ done.req.op = "chat_with_avatar"
    /\ done.resp.code = 200
    /\ done.req.conversation_id # NoId
    /\ done.req.conversation_id = done.resp.id
    /\ done.resp.id \in DOMAIN conversations
    /\ history[done.resp.id].turns = 3
    /\ conversations[done.resp.id].messages
          = Turn(done.req.message, done.resp.content)

(* C9: in every step every conversation's stored messages list is a prefix  *)
(* of the list stored after the step.                                        *)
C9_AppendOnly ==
    [][\A c \in DOMAIN conversations :
          /\ c \in DOMAIN conversations'
          /\ IsPrefix(conversations[c].messages, conversations'[c].messages)
       ]_vars

(* C9, amended: a conversation's messages list changes only when a chat     *)
(* turn is answered with success, and then to the list that turn read        *)
(* followed by its two messages, so that the stored list is a prefix of the  *)
(* new one whenever nothing was written since the turn read it; no           *)
(* conversation is removed, and a summarize request changes summary and      *)
(* ended_at only.                                                            *)
C9_WrittenFromRead ==
    [][\A c \in DOMAIN conversations :
          /\ c \in DOMAIN conversations'
          /\ \/ conversations'[c].messages = conversations[c].messages
             \/ \E r \in Slots :
                   /\ TurnAnswered(r)
                   /\ loc[r].conversation_id = c
                   /\ conversations'[c].messages
                         = loc[r].messages \o Turn(req[r].message, done'.resp.content)
                   /\ conversations'[c].summary = conversations[c].summary
                   /\ conversations'[c].ended_at = conversations[c].ended_at
                   /\ loc[r].messages = conversations[c].messages =>
                         IsPrefix(conversations[c].messages, conversations'[c].messages)
          /\ (\E r \in Slots : pc[r] = "summarize_reply" /\ pc'[r] = "idle") =>
                conversations'[c].messages = conversations[c].messages
       ]_vars

\* C9, reached: a summarize request was answered with success on a
\* conversation that still holds the messages of its one chat turn.
C9_Witness ==
    /\ done.req.op = "summarize_conversation"
    /\ done.resp.code = 200
    /\ done.resp.id \in DOMAIN conversations
    /\ conversations[done.resp.id].summary # None
    /\ history[done.resp.id].turns = 1
    /\ Len(conversations[done.resp.id].messages) = 2

(* C10: at most one agent is constructed per label; a label once in the     *)
(* cache keeps its instance; the cache holds no label but "chat" and         *)
(* "search"; a /chat request with any other label is answered 400 and        *)
(* leaves the cache as it was.                                               *)
C10_OneAgentPerLabel ==
    [][/\ \A l \in AgentLabels : constructed'[l] <= 1
       /\ DOMAIN agent_cache' \subseteq {"chat", "search"}
       /\ \A l \in DOMAIN agent_cache :
             l \in DOMAIN agent_cache' /\ agent_cache'[l] = agent_cache[l]
       /\ \A l \in DOMAIN agent_cache' \ DOMAIN agent_cache : constructed[l] = 0
       /\ (/\ Arrival
           /\ Arrived.op = "chat_with_agent"
           /\ Arrived.agent_type \notin {"chat", "search"})
          => /\ done'.req = Arrived
             /\ done'.resp.code = 400
             /\ done'.calls = 0
             /\ agent_cache' = agent_cache
             /\ constructed' = constructed
       ]_vars

\* C10, reached: two requests in flight both hold the chat agent, a third
\* request with the label was answered, and one chat agent was constructed.
C10_Witness ==
    /\ \A r \in Slots : pc[r] \in {"chat_reply", "chat_reply_agent", "summarize_reply"}
    /\ \E r \in Slots : pc[r] = "chat_reply_agent" /\ req[r].agent_type = "chat"
    /\ done.req.op = "chat_with_agent"
    /\ done.req.agent_type = "chat"
    /\ done.resp.code = 200
    /\ constructed["chat"] = 1
    /\ "chat" \in DOMAIN agent_cache

(* C11: DELETE /avatars/{id} on a stored avatar is answered 200, removes    *)
(* that avatar record and no other, and leaves every training document and   *)
(* every conversation as stored, those of the deleted avatar included, which *)
(* are still listed under its id; a GET, PUT or DELETE of the id that        *)
(* arrives after the deletion is answered 404 and changes nothing, and no    *)
(* deleted id is ever stored as an avatar again.                             *)
C11_DeleteAvatar ==
    [][/\ (/\ Arrival
           /\ Arrived.op = "delete_avatar"
           /\ Arrived.id \in DOMAIN ai_avatars)
          => /\ done'.req = Arrived
             /\ done'.resp.code = 200
             /\ DOMAIN ai_avatars' = DOMAIN ai_avatars \ {Arrived.id}
             /\ \A a \in DOMAIN ai_avatars' : ai_avatars'[a] = ai_avatars[a]
             /\ GetAvatar(ai_avatars', Arrived.id).code = 404
             /\ Arrived.id \in deleted'
             /\ training_documents' = training_documents
             /\ conversations' = conversations
             /\ status_checks' = status_checks
             /\ GetTrainingDocuments(training_documents', Arrived.id)
                   = GetTrainingDocuments(training_documents, Arrived.id)
             /\ GetAvatarConversations(conversations', Arrived.id)
                   = GetAvatarConversations(conversations, Arrived.id)
       /\ (/\ Arrival
           /\ Arrived.op \in {"get_avatar", "update_avatar", "delete_avatar"}
           /\ Arrived.id \in deleted)
          => /\ done'.req = Arrived
             /\ done'.resp.code = 404
             /\ UNCHANGED db
       /\ deleted \subseteq deleted'
       /\ deleted' \cap DOMAIN ai_avatars' = {}
       ]_vars

\* C11, reached: a second DELETE of a deleted avatar's id was answered 404
\* with nothing in flight, and a document of the deleted avatar is stored
\* and listed under its id.
C11_Witness ==
    /\ done.req.op = "delete_avatar"
    /\ done.req.id \in deleted
    /\ done.resp.code = 404
    /\ \A r \in Slots : pc[r] = "idle"
    /\ GetAvatar(ai_avatars, done.req.id).code = 404
    /\ \E d \in DOMAIN training_documents :
          /\ training_documents[d].avatar_id = done.req.id
          /\ training_documents[d] \in
                GetTrainingDocuments(training_documents, done.req.id)

(* C12: a chat turn answered 500 because agent.execute answered without     *)
(* success has stored nothing: the step that answers it changes no           *)
(* conversation, and the conversations stored after it are those stored      *)
(* when the turn arrived and those other requests created, with or without   *)
(* a conversation_id in the request.                                         *)
C12_FailedTurnStoresNothing ==
    [][\A r \in Slots :
          (/\ pc[r] = "chat_reply"
           /\ pc'[r] = "idle"
           /\ done'.resp.code = 500)
          => /\ conversations' = conversations
             /\ req[r].conversation_id # NoId =>
                   loc[r].conversation_id = req[r].conversation_id
             /\ req[r].conversation_id = NoId =>
                   loc[r].conversation_id \notin DOMAIN conversations'
       ]_vars

(* C13: a chat turn changes only a conversation of the avatar its request   *)
(* names: whenever the answer of a turn changes a stored conversation, that  *)
(* conversation's avatar_id is the request's avatar_id.                      *)
C13_TurnOfOwnAvatar ==
    [][\A r \in Slots :
          (pc[r] = "chat_reply" /\ pc'[r] = "idle") =>
              \A c \in DOMAIN conversations :
                  conversations'[c] # conversations[c] =>
                      conversations[c].avatar_id = req[r].id
       ]_vars

(* C14: in every reachable state every stored conversation's messages list  *)
(* has even length and its roles alternate visitor, avatar, visitor,         *)
(* avatar, ..., starting with visitor; the lists that handlers in flight     *)
(* have read have the same shape.                                            *)
C14_Alternating ==
    LET Alternates(m) ==
            /\ Len(m) % 2 = 0
            /\ \A i \in 1 .. Len(m) :
                  m[i].role = IF i % 2 = 1 THEN "visitor" ELSE "avatar"
    IN  /\ \A c \in DOMAIN conversations : Alternates(conversations[c].messages)
        /\ \A r \in Slots : Alternates(loc[r].messages)

\* C14, reached: three chat turns on one conversation were answered with
\* success, two of them overlapping, and the conversation holds four
\* messages, with nothing in flight.
C14_Witness ==
    /\ \A r \in Slots : pc[r] = "idle"
    /\ \E c \in DOMAIN conversations :
          /\ history[c].turns = 3
          /\ Len(conversations[c].messages) = 4
          /\ conversations[c].messages[3].role = "visitor"
          /\ conversations[c].messages[4].role = "avatar"

====
